---- MODULE Spec2Model ----
(***************************************************************************)
(* Passgen.py ("passenger"): the wordlist wizard.  Strings are sequences   *)
(* of one-character strings, so that case mapping, leet translation,       *)
(* slicing, regular-expression filtering and code-point ordering are       *)
(* computed character by character as the Python code computes them.      *)
(***************************************************************************)
EXTENDS Integers, Sequences, FiniteSets, TLC

VARIABLES
    pc,           \* position inside main()/run_wizard()
    cfg,          \* the "Wordlist settings" block (module globals)
    tokens,       \* run_wizard: tokens
    date_str,     \* run_wizard: date_str
    date_tails,   \* run_wizard: date_tails
    base,         \* run_wizard: base
    expanded,     \* run_wizard: expanded
    base_snapshot,\* run_wizard: base_snapshot
    tails,        \* run_wizard: tails
    now_year,     \* run_wizard: now_year
    final_words,  \* run_wizard: final_words
    output_path,  \* run_wizard: output_path
    towrite,      \* the not yet visited rest of sorted(final_words)
    fs,           \* the working directory: path -> list of lines
    notice,       \* what main()/run_wizard() printed last
    runs,         \* number of program runs started in this directory
    history,      \* completed runs: inputs, clock year and lines written
    opened,       \* history of open(..., "w"): path and whether it existed
    w,            \* argument of case_variants
    variants      \* result of case_variants

vars == <<pc, cfg, tokens, date_str, date_tails, base, expanded, base_snapshot,
          tails, now_year, final_words, output_path, towrite, fs, notice, runs,
          history, opened, w, variants>>

(***************************************************************************)
(* Characters                                                              *)
(***************************************************************************)

\* Printable ASCII in code-point order, starting at code point 32 (the quote,
\* backslash and backtick characters are spelled out).
Ascii ==
    <<" ", "!", "DQUOTE", "#", "$", "%", "&", "'", "(", ")", "*", "+", ",", "-", ".", "/",
      "0", "1", "2", "3", "4", "5", "6", "7", "8", "9", ":", ";", "<", "=", ">", "?",
      "@", "A", "B", "C", "D", "E", "F", "G", "H", "I", "J", "K", "L", "M", "N", "O",
      "P", "Q", "R", "S", "T", "U", "V", "W", "X", "Y", "Z", "[", "BACKSLASH", "]", "^", "_",
      "BACKTICK", "a", "b", "c", "d", "e", "f", "g", "h", "i", "j", "k", "l", "m", "n", "o",
      "p", "q", "r", "s", "t", "u", "v", "w", "x", "y", "z", "{", "|", "}", "~">>

AsciiChars == {Ascii[i] : i \in 1..Len(Ascii)}

\* ord(c)
OrdTable == [c \in AsciiChars |-> 31 + CHOOSE i \in 1..Len(Ascii) : Ascii[i] = c]

Ord(c) == OrdTable[c]

\* chr(n)
Chr(n) == Ascii[n - 31]

IsDigit(c) == Ord(c) >= 48 /\ Ord(c) <= 57

IsUpper(c) == Ord(c) >= 65 /\ Ord(c) <= 90

IsLower(c) == Ord(c) >= 97 /\ Ord(c) <= 122

IsAlnum(c) == IsDigit(c) \/ IsUpper(c) \/ IsLower(c)

LowerChar(c) == IF IsUpper(c) THEN Chr(Ord(c) + 32) ELSE c

UpperChar(c) == IF IsLower(c) THEN Chr(Ord(c) - 32) ELSE c

(***************************************************************************)
(* str methods                                                             *)
(***************************************************************************)

\* s.lower()
lower(s) == [i \in 1..Len(s) |-> LowerChar(s[i])]

\* s.upper()
upper(s) == [i \in 1..Len(s) |-> UpperChar(s[i])]

\* A plausible slip: capitalize that leaves the tail of the string alone.
capitalize_keep_rest(s) ==
    IF s = <<>> THEN <<>> ELSE <<UpperChar(Head(s))>> \o Tail(s)

\* s.capitalize(): first character upper-cased, ALL others lower-cased.
capitalize(s) ==
    IF s = <<>> THEN <<>> ELSE <<UpperChar(Head(s))>> \o lower(Tail(s))

\* sep.join(parts)
RECURSIVE join(_, _)
join(sep, parts) ==
    IF parts = <<>> THEN <<>>
    ELSE IF Len(parts) = 1 THEN Head(parts)
    ELSE Head(parts) \o sep \o join(sep, Tail(parts))

\* str(n) for n >= 0
RECURSIVE str(_)
str(n) == IF n < 10 THEN <<Chr(48 + n)>> ELSE str(n \div 10) \o <<Chr(48 + (n % 10))>>

\* s.zfill(width)
RECURSIVE zfill(_, _)
zfill(s, width) == IF Len(s) >= width THEN s ELSE zfill(<<"0">> \o s, width)

\* Python str ordering: by code point, a proper prefix first.
RECURSIVE StrLess(_, _)
StrLess(a, b) ==
    IF b = <<>> THEN FALSE
    ELSE IF a = <<>> THEN TRUE
    ELSE IF Ord(Head(a)) # Ord(Head(b)) THEN Ord(Head(a)) < Ord(Head(b))
    ELSE StrLess(Tail(a), Tail(b))

\* sorted(S) of a set of strings
RECURSIVE sorted(_)
sorted(S) ==
    IF S = {} THEN <<>>
    ELSE LET m == CHOOSE x \in S : \A y \in S \ {x} : StrLess(x, y)
         IN  <<m>> \o sorted(S \ {m})

(***************************************************************************)
(* Wordlist core                                                           *)
(***************************************************************************)

IsSeparator(c) == c \in {"_", "-", "."}

\* re.split(r"[_\-.]", s): the pieces between separator characters
RECURSIVE re_split_from(_, _)
re_split_from(s, cur) ==
    IF s = <<>> THEN <<cur>>
    ELSE IF IsSeparator(Head(s)) THEN <<cur>> \o re_split_from(Tail(s), <<>>)
    ELSE re_split_from(Tail(s), Append(cur, Head(s)))

re_split(s) == re_split_from(s, <<>>)

\* ''.join(p.capitalize() for p in parts if p)
RECURSIVE camel_of(_)
camel_of(parts) ==
    IF parts = <<>> THEN <<>>
    ELSE (IF Head(parts) # <<>> THEN capitalize(Head(parts)) ELSE <<>>)
         \o camel_of(Tail(parts))

\* A plausible slip: the Camel form is never added.
case_variants_no_camel(s) ==
    {s, lower(s), upper(s)} \cup (IF s # <<>> THEN {capitalize(s)} ELSE {})

case_variants(s) ==
    LET v0    == {s, lower(s), upper(s)}
        v1    == IF s # <<>> THEN v0 \cup {capitalize(s)} ELSE v0
        camel == camel_of(re_split(s))
    IN  IF camel # <<>> THEN v1 \cup {camel, lower(camel)} ELSE v1

\* LEET_MAP
LeetChar(c) ==
    CASE c \in {"a", "A"} -> "4"
      [] c \in {"e", "E"} -> "3"
      [] c \in {"i", "I"} -> "1"
      [] c \in {"o", "O"} -> "0"
      [] c \in {"s", "S"} -> "5"
      [] c \in {"t", "T"} -> "7"
      [] c \in {"b", "B"} -> "8"
      [] OTHER -> c

leet_variants(s) == {s, [i \in 1..Len(s) |-> LeetChar(s[i])]}

\* whitespace removed, then every character outside [0-9A-Za-z]
clean_token(s) == SelectSeq(SelectSeq(s, LAMBDA c : c # " "), IsAlnum)


\* "Wordlist settings": the module-level names, read from the settings block
MAX_COMBO_TOKENS == cfg.MAX_COMBO_TOKENS

ADD_LEET == cfg.ADD_LEET

ADD_CASE_VARIANTS == cfg.ADD_CASE_VARIANTS

ADD_SEPARATORS == cfg.ADD_SEPARATORS

ADD_NUM_TAILS == cfg.ADD_NUM_TAILS

MIN_LEN == cfg.MIN_LEN

MAX_LEN == cfg.MAX_LEN

\* OUTPUT_FILE = "wordlist.txt", with Path(OUTPUT_FILE).stem and .suffix
OUTPUT_FILE == "wordlist.txt"

OUTPUT_STEM == "wordlist"

OUTPUT_SUFFIX == ".txt"

Range(f) == {f[i] : i \in DOMAIN f}

with_separators(combo) ==
    LET seps == IF ADD_SEPARATORS THEN {<<>>, <<"-">>, <<"_">>, <<".">>} ELSE {<<>>}
    IN  {join(sep, combo) : sep \in seps}

\* A plausible slip: the date fragments are appended in a second pass over the
\* output of the first, so a word that already carries a numeric tail receives
\* a date tail as well.
add_numeric_tails_compounding(words, tls) ==
    LET numeric == SubSeq(tls, 1, 100 + 11)
        dated   == SubSeq(tls, 100 + 11 + 1, Len(tls))
        once    == words \cup {wd \o t : wd \in words, t \in Range(numeric)}
    IN  once \cup {wd \o t : wd \in once, t \in Range(dated)}

add_numeric_tails(words, tls) ==
    words \cup {wd \o t : wd \in words, t \in Range(tls)}

\* A plausible slip: the upper bound is exclusive.
unique_len_filtered_exclusive(words) ==
    {wd \in words : MIN_LEN <= Len(wd) /\ Len(wd) < MAX_LEN}

unique_len_filtered(words) ==
    {wd \in words : MIN_LEN <= Len(wd) /\ Len(wd) <= MAX_LEN}

\* list(dict.fromkeys(xs)) and the "seen" loop: first occurrences, in order
RECURSIVE dedup_from(_, _)
dedup_from(xs, seen) ==
    IF xs = <<>> THEN <<>>
    ELSE IF Head(xs) \in seen THEN dedup_from(Tail(xs), seen)
    ELSE <<Head(xs)>> \o dedup_from(Tail(xs), seen \cup {Head(xs)})

dedup(xs) == dedup_from(xs, {})

\* ds[a:b] (0-based, end exclusive) of a string long enough
Slice(s, a, b) == SubSeq(s, a + 1, b)

\* A plausible slip: the "20yy" fragment of a six-digit date is appended after
\* the other fragments instead of before them.
parse_date_extra_last(d) ==
    IF d = <<>> THEN <<>>
    ELSE
      LET ds    == SelectSeq(d, IsDigit)
          day   == IF Len(ds) \in {6, 8} THEN Slice(ds, 0, 2) ELSE <<>>
          month == IF Len(ds) \in {6, 8} THEN Slice(ds, 2, 4) ELSE <<>>
          year  == IF Len(ds) = 8 THEN Slice(ds, 4, 8)
                   ELSE IF Len(ds) = 6 THEN <<"1", "9">> \o Slice(ds, 4, 6)
                   ELSE <<>>
          extra == IF Len(ds) = 6 THEN << <<"2", "0">> \o Slice(ds, 4, 6) >> ELSE <<>>
          frags == SelectSeq(<<day, month, year, ds>>, LAMBDA f : f # <<>>)
          combi == IF day # <<>> /\ month # <<>> /\ year # <<>>
                   THEN <<day \o month, month \o day,
                          day \o month \o year, year \o month \o day>>
                   ELSE <<>>
      IN  dedup(frags \o combi \o extra)

\* run_wizard, "Parse date into numeric fragments": the value of date_tails
parse_date(d) ==
    IF d = <<>> THEN <<>>
    ELSE
      LET ds    == SelectSeq(d, IsDigit)
          day   == IF Len(ds) \in {6, 8} THEN Slice(ds, 0, 2) ELSE <<>>
          month == IF Len(ds) \in {6, 8} THEN Slice(ds, 2, 4) ELSE <<>>
          year  == IF Len(ds) = 8 THEN Slice(ds, 4, 8)
                   ELSE IF Len(ds) = 6 THEN <<"1", "9">> \o Slice(ds, 4, 6)
                   ELSE <<>>
          extra == IF Len(ds) = 6 THEN << <<"2", "0">> \o Slice(ds, 4, 6) >> ELSE <<>>
          frags == SelectSeq(<<day, month, year, ds>>, LAMBDA f : f # <<>>)
          combi == IF day # <<>> /\ month # <<>> /\ year # <<>>
                   THEN <<day \o month, month \o day,
                          day \o month \o year, year \o month \o day>>
                   ELSE <<>>
      IN  dedup(extra \o frags \o combi)

\* itertools.permutations(xs, r): the r-tuples of elements at distinct positions
RECURSIVE permutations_over(_, _, _)
permutations_over(xs, free, r) ==
    IF r = 0 THEN {<<>>}
    ELSE UNION {{<<xs[i]>> \o p : p \in permutations_over(xs, free \ {i}, r - 1)} : i \in free}

permutations(xs, r) == permutations_over(xs, DOMAIN xs, r)

Min(a, b) == IF a <= b THEN a ELSE b

\* A plausible slip: range(1, min(...)) without the "+ 1".
build_base_short(toks) ==
    UNION {UNION {with_separators(combo) : combo \in permutations(toks, r)}
           : r \in 1..(Min(MAX_COMBO_TOKENS, Len(toks)) - 1)}

\* run_wizard, "Build base combinations from name tokens only"
build_base(toks) ==
    UNION {UNION {with_separators(combo) : combo \in permutations(toks, r)}
           : r \in 1..Min(MAX_COMBO_TOKENS, Len(toks))}

\* run_wizard, "Expand with case and leet variants"
expand(bs) ==
    UNION {LET v0 == {b}
               v1 == IF ADD_CASE_VARIANTS THEN UNION {case_variants(x) : x \in v0} ELSE v0
               v2 == IF ADD_LEET THEN UNION {leet_variants(x) : x \in v1} ELSE v1
           IN  v2 : b \in bs}

\* tails = ["00".."99"] + [now_year - 10 .. now_year] + date_tails
build_tails(year, dts) ==
    [i \in 1..100 |-> zfill(str(i - 1), 2)]
    \o [i \in 1..11 |-> str(year - 10 + i - 1)]
    \o dts

\* tokens: cleaned, empties dropped, duplicates dropped keeping the first
normalize_fields(fields) ==
    LET given   == SelectSeq(fields, LAMBDA x : x # <<>>)
        cleaned == [i \in 1..Len(given) |-> clean_token(given[i])]
    IN  dedup(SelectSeq(cleaned, LAMBDA t : t # <<>>))

\* datetime.now().strftime("%H%M%S") of a clock reading <<hour, minute, second>>
TwoDigits(n) == ToString(n \div 10) \o ToString(n % 10)

strftime_HMS(t) == TwoDigits(t[1]) \o TwoDigits(t[2]) \o TwoDigits(t[3])

\* Path(p).exists()
exists(p) == p \in DOMAIN fs

resolve_output_path(basename, t) ==
    IF ~exists(basename) THEN basename
    ELSE OUTPUT_STEM \o "_" \o strftime_HMS(t) \o OUTPUT_SUFFIX


(***************************************************************************)
(* Bounds and input sets                                                   *)
(***************************************************************************)

\* name/surname/nickname/team fields that may be filled in when tails are off
MaxFields == 3

\* fields that may be filled in when ADD_NUM_TAILS is on (111+ tails per word)
MaxFieldsTails == 1

\* longest argument of case_variants explored on its own
MaxWordLen == 3

\* longest date string explored on its own
MaxDateLen == 8

\* program runs in one directory (determinism / output path scenarios)
MaxRunsDet == 2

MaxRunsPath == 3

Rep(c, n) == [i \in 1..n |-> c]

Config(combo, leet, case, seps, numtails, lo, hi) ==
    [MAX_COMBO_TOKENS |-> combo, ADD_LEET |-> leet, ADD_CASE_VARIANTS |-> case,
     ADD_SEPARATORS |-> seps, ADD_NUM_TAILS |-> numtails, MIN_LEN |-> lo, MAX_LEN |-> hi]

\* the settings block as shipped
DefaultConfig == Config(3, TRUE, TRUE, TRUE, TRUE, 7, 24)

\* edits of the settings block
WindowConfig == Config(2, FALSE, FALSE, TRUE, FALSE, 7, 24)

VariantConfig == Config(3, TRUE, TRUE, TRUE, FALSE, 4, 6)

PlainConfig == Config(2, FALSE, TRUE, FALSE, FALSE, 3, 6)

SingleTailConfig == Config(1, TRUE, TRUE, FALSE, TRUE, 7, 24)

PairTailConfig == Config(2, FALSE, FALSE, TRUE, TRUE, 10, 10)

NoComboConfig == Config(0, TRUE, TRUE, TRUE, FALSE, 1, 24)

EmptyWindowConfig == Config(2, FALSE, FALSE, FALSE, FALSE, 9, 3)

WizardConfigs ==
    {DefaultConfig, WindowConfig, VariantConfig, PlainConfig, SingleTailConfig,
     PairTailConfig, NoComboConfig, EmptyWindowConfig}

ShortFields ==
    {<<"a", "n", "n">>, <<"l", "e", "e">>, <<"B", "o">>, <<"l", ".", "e", " ", "e">>}

LongFields == {Rep("x", 6), Rep("y", 7), Rep("z", 18)}

\* the four prompts, the first n of which may be answered
FieldTuples(pool, n) ==
    {f \in [1..4 -> pool \cup {<<>>}] : \A i \in 1..4 : i > n => f[i] = <<>>}

WizardFields(c) ==
    IF c = DefaultConfig THEN {<<x, <<>>, <<>>, <<>> >> : x \in ShortFields}
    ELSE IF c = WindowConfig THEN FieldTuples(LongFields, MaxFields)
    ELSE IF c.ADD_NUM_TAILS THEN FieldTuples(ShortFields, MaxFieldsTails)
    ELSE FieldTuples(ShortFields, MaxFields)

WizardDates == {<<>>, <<"0", "2", "/", "0", "2", "/", "0", "2">>}

\* datetime.now(): the calendar years and times of day the clock may show
Years == {2025, 2026}

ClockTimes == {<<9, 5, 7>>, <<23, 59, 59>>}

CaseChars == {"a", "b", "c", "B", "1", "-", "_", "."}

CaseWords == UNION {[1..n -> CaseChars] : n \in 0..MaxWordLen}

DateChars == {"0", "2", "/"}

DateStrings == UNION {[1..n -> DateChars] : n \in 0..MaxDateLen}

(***************************************************************************)
(* main() and run_wizard()                                                 *)
(***************************************************************************)

NoFiles == [p \in {} |-> <<>>]

Locals ==
    /\ tokens = <<>>
    /\ date_str = <<>>
    /\ date_tails = <<>>
    /\ base = {}
    /\ expanded = {}
    /\ base_snapshot = {}
    /\ tails = <<>>
    /\ now_year = 0
    /\ final_words = {}
    /\ output_path = ""
    /\ towrite = <<>>
    /\ opened = FALSE
    /\ notice = ""
    /\ w = <<>>
    /\ variants = {}

Running == {"prompt", "date", "base", "expand", "tails", "filter", "resolve",
            "open", "write"}

\* lines 245-254: the five prompts, then the token list
Prompt(inputs) ==
    /\ pc = "prompt"
    /\ \E in \in inputs :
          /\ tokens' = normalize_fields(in[1])
          /\ date_str' = in[2]
    /\ pc' = "date"
    /\ UNCHANGED <<cfg, date_tails, base, expanded, base_snapshot, tails, now_year,
                   final_words, output_path, towrite, fs, notice, runs, history,
                   opened, w, variants>>

\* lines 259-286
ParseDate ==
    /\ pc = "date"
    /\ date_tails' = parse_date(date_str)
    /\ pc' = "base"
    /\ UNCHANGED <<cfg, tokens, date_str, base, expanded, base_snapshot, tails,
                   now_year, final_words, output_path, towrite, fs, notice, runs,
                   history, opened, w, variants>>

\* lines 289-293
BuildBase ==
    /\ pc = "base"
    /\ base' = build_base(tokens)
    /\ pc' = "expand"
    /\ UNCHANGED <<cfg, tokens, date_str, date_tails, expanded, base_snapshot, tails,
                   now_year, final_words, output_path, towrite, fs, notice, runs,
                   history, opened, w, variants>>

\* lines 296-303
Expand ==
    /\ pc = "expand"
    /\ expanded' = expand(base)
    /\ pc' = "tails"
    /\ UNCHANGED <<cfg, tokens, date_str, date_tails, base, base_snapshot, tails,
                   now_year, final_words, output_path, towrite, fs, notice, runs,
                   history, opened, w, variants>>

\* lines 308-317, ADD_NUM_TAILS on: the clock is read for the year
AddTails ==
    /\ pc = "tails"
    /\ ADD_NUM_TAILS
    /\ \E y \in Years :
          /\ now_year' = y
          /\ tails' = build_tails(y, date_tails)
    /\ base_snapshot' = expanded
    /\ expanded' = add_numeric_tails(base_snapshot', tails')
    /\ pc' = "filter"
    /\ UNCHANGED <<cfg, tokens, date_str, date_tails, base, final_words, output_path,
                   towrite, fs, notice, runs, history, opened, w, variants>>

\* line 308, ADD_NUM_TAILS off: the stage is skipped
SkipTails ==
    /\ pc = "tails"
    /\ ~ADD_NUM_TAILS
    /\ pc' = "filter"
    /\ UNCHANGED <<cfg, tokens, date_str, date_tails, base, expanded, base_snapshot,
                   tails, now_year, final_words, output_path, towrite, fs, notice,
                   runs, history, opened, w, variants>>

\* line 320
FilterWords ==
    /\ pc = "filter"
    /\ final_words' = unique_len_filtered(expanded)
    /\ pc' = "resolve"
    /\ UNCHANGED <<cfg, tokens, date_str, date_tails, base, expanded, base_snapshot,
                   tails, now_year, output_path, towrite, fs, notice, runs, history,
                   opened, w, variants>>

\* line 321: the clock is read for the time of day
Resolve ==
    /\ pc = "resolve"
    /\ \E t \in ClockTimes : output_path' = resolve_output_path(OUTPUT_FILE, t)
    /\ pc' = "open"
    /\ UNCHANGED <<cfg, tokens, date_str, date_tails, base, expanded, base_snapshot,
                   tails, now_year, final_words, towrite, fs, notice, runs, history,
                   opened, w, variants>>

Reverse(xs) == [i \in 1..Len(xs) |-> xs[Len(xs) + 1 - i]]

\* A plausible slip: the loop runs over final_words itself; the iteration order
\* of a set of strings changes from one process to the next.
OpenFileUnsorted ==
    /\ pc = "open"
    /\ fs' = (output_path :> <<>>) @@ fs
    /\ opened' = TRUE
    /\ towrite' \in {sorted(final_words), Reverse(sorted(final_words))}
    /\ pc' = "write"
    /\ UNCHANGED <<cfg, tokens, date_str, date_tails, base, expanded, base_snapshot,
                   tails, now_year, final_words, output_path, notice, runs, history,
                   w, variants>>

\* lines 323-324: open(output_path, "w") creates or truncates the file, then
\* sorted(final_words) is built
OpenFile ==
    /\ pc = "open"
    /\ fs' = (output_path :> <<>>) @@ fs
    /\ opened' = TRUE
    /\ towrite' = sorted(final_words)
    /\ pc' = "write"
    /\ UNCHANGED <<cfg, tokens, date_str, date_tails, base, expanded, base_snapshot,
                   tails, now_year, final_words, output_path, notice, runs, history,
                   w, variants>>

\* lines 324-325: one iteration of the write loop
WriteLine ==
    /\ pc = "write"
    /\ towrite # <<>>
    /\ fs' = [fs EXCEPT ![output_path] = Append(@, Head(towrite))]
    /\ towrite' = Tail(towrite)
    /\ UNCHANGED <<pc, cfg, tokens, date_str, date_tails, base, expanded,
                   base_snapshot, tails, now_year, final_words, output_path, notice,
                   runs, history, opened, w, variants>>

\* lines 327-348: the file is closed, the summary is printed, run_wizard returns
Finish ==
    /\ pc = "write"
    /\ towrite = <<>>
    /\ notice' = "Generated"
    /\ history' = history \cup
          {[run |-> runs, cfg |-> cfg, tokens |-> tokens, date_tails |-> date_tails,
            now_year |-> now_year, out |-> fs[output_path]]}
    /\ pc' = "done"
    /\ UNCHANGED <<cfg, tokens, date_str, date_tails, base, expanded, base_snapshot,
                   tails, now_year, final_words, output_path, towrite, fs, runs,
                   opened, w, variants>>

\* lines 354-360: KeyboardInterrupt (or EOFError at a prompt) anywhere in
\* run_wizard; the with-block closes the file with what was written so far
Interrupt ==
    /\ pc \in Running
    /\ notice' = "Aborted."
    /\ pc' = "aborted"
    /\ UNCHANGED <<cfg, tokens, date_str, date_tails, base, expanded, base_snapshot,
                   tails, now_year, final_words, output_path, towrite, fs, history,
                   runs, opened, w, variants>>

\* the program is started again in the same directory
Restart(limit) ==
    /\ pc \in {"done", "aborted"}
    /\ runs < limit
    /\ runs' = runs + 1
    /\ pc' = "prompt"
    /\ tokens' = <<>> /\ date_str' = <<>> /\ date_tails' = <<>> /\ base' = {}
    /\ expanded' = {} /\ base_snapshot' = {} /\ tails' = <<>> /\ now_year' = 0
    /\ final_words' = {} /\ output_path' = "" /\ towrite' = <<>>
    /\ opened' = FALSE /\ notice' = ""
    /\ UNCHANGED <<cfg, fs, history, w, variants>>

\* case_variants applied to one string
ApplyCaseVariants ==
    /\ pc = "case"
    /\ variants' = case_variants(w)
    /\ pc' = "case_done"
    /\ UNCHANGED <<cfg, tokens, date_str, date_tails, base, expanded, base_snapshot,
                   tails, now_year, final_words, output_path, towrite, fs, notice,
                   runs, history, opened, w>>

(***************************************************************************)
(* Specifications                                                          *)
(***************************************************************************)

\* one run of the wizard over the edited settings blocks
InitWizard ==
    /\ pc = "prompt"
    /\ cfg \in WizardConfigs
    /\ fs \in {NoFiles, (OUTPUT_FILE :> << <<"o", "l", "d">> >>)}
    /\ runs = 1
    /\ history = {}
    /\ Locals

NextWizard ==
    \/ Prompt(WizardFields(cfg) \X WizardDates)
    \/ ParseDate
    \/ BuildBase
    \/ Expand
    \/ AddTails
    \/ SkipTails
    \/ FilterWords
    \/ Resolve
    \/ OpenFile
    \/ WriteLine
    \/ Finish
    \/ Interrupt

SpecWizard == InitWizard /\ [][NextWizard]_vars

\* case_variants on its own, over every string up to MaxWordLen
InitCase ==
    /\ pc = "case"
    /\ cfg = DefaultConfig
    /\ fs = NoFiles
    /\ runs = 1
    /\ history = {}
    /\ tokens = <<>> /\ date_str = <<>> /\ date_tails = <<>> /\ base = {}
    /\ expanded = {} /\ base_snapshot = {} /\ tails = <<>> /\ now_year = 0
    /\ final_words = {} /\ output_path = "" /\ towrite = <<>> /\ opened = FALSE
    /\ notice = "" /\ variants = {}
    /\ w \in CaseWords

NextCase == ApplyCaseVariants

SpecCase == InitCase /\ [][NextCase]_vars

\* the date parsing on its own, over every date string up to MaxDateLen
InitDate ==
    /\ pc = "date"
    /\ cfg = DefaultConfig
    /\ fs = NoFiles
    /\ runs = 1
    /\ history = {}
    /\ tokens = <<>> /\ date_tails = <<>> /\ base = {}
    /\ expanded = {} /\ base_snapshot = {} /\ tails = <<>> /\ now_year = 0
    /\ final_words = {} /\ output_path = "" /\ towrite = <<>> /\ opened = FALSE
    /\ notice = "" /\ variants = {} /\ w = <<>>
    /\ date_str \in DateStrings

NextDate == ParseDate

SpecDate == InitDate /\ [][NextDate]_vars


\* repeated runs with numeric tails on: one token, years of the form ann2025
YearTailConfig == Config(1, FALSE, FALSE, FALSE, TRUE, 7, 7)

DetFields == {<< <<"a", "n", "n">>, <<>>, <<>>, <<>> >>}

InitDet ==
    /\ pc = "prompt"
    /\ cfg = YearTailConfig
    /\ fs = NoFiles
    /\ runs = 1
    /\ history = {}
    /\ Locals

NextDet ==
    \/ Prompt(DetFields \X {<<>>})
    \/ ParseDate
    \/ BuildBase
    \/ Expand
    \/ AddTails
    \/ FilterWords
    \/ Resolve
    \/ OpenFile
    \/ WriteLine
    \/ Finish
    \/ Interrupt
    \/ Restart(MaxRunsDet)

SpecDet == InitDet /\ [][NextDet]_vars

\* repeated runs in one directory, numeric tails off: the output path
PathFields == {<< <<"a", "n", "n">>, <<>>, <<>>, <<>> >>}

InitPath ==
    /\ pc = "prompt"
    /\ cfg = PlainConfig
    /\ fs = NoFiles
    /\ runs = 1
    /\ history = {}
    /\ Locals

NextPath ==
    \/ Prompt(PathFields \X {<<>>})
    \/ ParseDate
    \/ BuildBase
    \/ Expand
    \/ SkipTails
    \/ FilterWords
    \/ Resolve
    \/ OpenFile
    \/ WriteLine
    \/ Finish
    \/ Interrupt
    \/ Restart(MaxRunsPath)

SpecPath == InitPath /\ [][NextPath]_vars

(***************************************************************************)
(* Properties of case_variants (SpecCase)                                  *)
(***************************************************************************)

HasSeparator(s) == \E i \in 1..Len(s) : IsSeparator(s[i])

Reapplied == UNION {case_variants(v) : v \in variants}

\* C5 as stated: for every string w, with or without the separator characters,
\* re-running case_variants on its own output adds nothing, and "abc" yields
\* exactly {"abc", "ABC", "Abc"}.
C5_FlatnessAllStrings ==
    pc = "case_done" =>
        /\ Reapplied = variants
        /\ w = <<"a", "b", "c">> =>
              variants = {<<"a", "b", "c">>, <<"A", "B", "C">>, <<"A", "b", "c">>}

\* C5 amended: for every string w that contains none of '_', '-', '.',
\* re-running case_variants on its own output adds nothing, and "abc" yields
\* exactly {"abc", "ABC", "Abc"}.
C5_FlatnessWithoutSeparators ==
    pc = "case_done" =>
        /\ ~HasSeparator(w) => Reapplied = variants
        /\ w = <<"a", "b", "c">> =>
              variants = {<<"a", "b", "c">>, <<"A", "B", "C">>, <<"A", "b", "c">>}

\* a mixed-case string without separators whose variants were re-expanded
C5_Witness ==
    /\ pc = "case_done"
    /\ w = <<"a", "B", "c">>
    /\ Cardinality(variants) = 4
    /\ Reapplied = variants

\* the string with character i of s replaced by F(i, s[i])
Pointwise(s, F(_, _)) == [i \in 1..Len(s) |-> F(i, s[i])]

\* the non-separator characters of s, each passed through F with its position
Unseparated(s, F(_, _)) ==
    LET keep == SelectSeq([i \in 1..Len(s) |-> i], LAMBDA i : ~IsSeparator(s[i]))
    IN  [k \in 1..Len(keep) |-> F(keep[k], s[keep[k]])]

StartsPart(s, i) == i = 1 \/ IsSeparator(s[i - 1])

\* C6 as stated: for non-empty w the variants are w, lower, upper and the
\* capitalized form that upper-cases the first character and leaves the others
\* as they are, plus, only when w contains a separator, the Camel form (each
\* non-empty part capitalized in that sense, concatenated; none when w has no
\* non-empty part) and its lowercase.
C6_FirstCharOnlyCapitalize ==
    pc = "case_done" /\ w # <<>> =>
        LET cap   == Pointwise(w, LAMBDA i, c : IF i = 1 THEN UpperChar(c) ELSE c)
            camel == Unseparated(w, LAMBDA i, c :
                         IF StartsPart(w, i) THEN UpperChar(c) ELSE c)
        IN  variants =
              {w, Pointwise(w, LAMBDA i, c : LowerChar(c)),
                  Pointwise(w, LAMBDA i, c : UpperChar(c)), cap}
              \cup (IF HasSeparator(w) /\ camel # <<>>
                    THEN {camel, Pointwise(camel, LAMBDA i, c : LowerChar(c))}
                    ELSE {})

\* C6 amended: for non-empty w the variants are w, lower, upper and the
\* capitalized form that upper-cases the first character and lower-cases all
\* others, plus, only when w contains a separator, the Camel form (each
\* non-empty part capitalized in that sense, concatenated; none when w has no
\* non-empty part) and its lowercase; without separators nothing else.
C6_CaseVariantContent ==
    pc = "case_done" /\ w # <<>> =>
        LET cap   == Pointwise(w, LAMBDA i, c :
                         IF i = 1 THEN UpperChar(c) ELSE LowerChar(c))
            camel == Unseparated(w, LAMBDA i, c :
                         IF StartsPart(w, i) THEN UpperChar(c) ELSE LowerChar(c))
        IN  variants =
              {w, Pointwise(w, LAMBDA i, c : LowerChar(c)),
                  Pointwise(w, LAMBDA i, c : UpperChar(c)), cap}
              \cup (IF HasSeparator(w) /\ camel # <<>>
                    THEN {camel, Pointwise(camel, LAMBDA i, c : LowerChar(c))}
                    ELSE {})

\* a mixed-case string with a separator: six variants, Camel form among them
C6_Witness ==
    /\ pc = "case_done"
    /\ w = <<"a", "-", "B">>
    /\ <<"A", "B">> \in variants
    /\ <<"a", "b">> \in variants
    /\ <<"A", "-", "b">> \in variants
    /\ Cardinality(variants) = 6


(***************************************************************************)
(* Properties of the date parsing (SpecDate)                               *)
(***************************************************************************)

\* position of the first occurrence of x in xs
FirstAt(xs, x) == CHOOSE i \in 1..Len(xs) : xs[i] = x /\ \A j \in 1..(i - 1) : xs[j] # x

\* out keeps exactly the first occurrences of xs, in their order
IsFirstOccurrences(out, xs) ==
    /\ Range(out) = Range(xs)
    /\ \A i, j \in 1..Len(out) : i < j => FirstAt(xs, out[i]) < FirstAt(xs, out[j])

DigitsOf(s) == SelectSeq(s, LAMBDA c : c \in {"0", "1", "2", "3", "4", "5", "6", "7", "8", "9"})

\* C8: with ds the digits of the date string, date_tails is day, month, year,
\* ds (empties skipped), then - when day, month and year are all non-empty -
\* day+month, month+day, day+month+year, year+month+day, deduplicated keeping
\* first occurrences; 8 digits split 2/2/4; 6 digits split 2/2/2 with year
\* "19"+yy and the extra fragment "20"+yy (which the code emits first); any
\* other length gives [ds], or nothing when there is no digit.
C8_DateFragments ==
    pc = "base" =>
        LET ds    == DigitsOf(date_str)
            n     == Len(ds)
            day   == IF n \in {6, 8} THEN <<ds[1], ds[2]>> ELSE <<>>
            month == IF n \in {6, 8} THEN <<ds[3], ds[4]>> ELSE <<>>
            year  == CASE n = 8 -> <<ds[5], ds[6], ds[7], ds[8]>>
                       [] n = 6 -> <<"1", "9", ds[5], ds[6]>>
                       [] OTHER -> <<>>
            extra == IF n = 6 THEN << <<"2", "0", ds[5], ds[6]>> >> ELSE <<>>
            plain == SelectSeq(<<day, month, year, ds>>, LAMBDA f : Len(f) > 0)
            all3  == Len(day) > 0 /\ Len(month) > 0 /\ Len(year) > 0
            conc  == IF all3 THEN <<day \o month, month \o day,
                                    day \o month \o year, year \o month \o day>>
                     ELSE <<>>
        IN  /\ IsFirstOccurrences(date_tails, extra \o plain \o conc)
            /\ n \notin {6, 8} => date_tails = (IF n = 0 THEN <<>> ELSE <<ds>>)

\* a six-digit date whose "20"+yy fragment coincides with day+month
C8_Witness ==
    /\ pc = "base"
    /\ date_str = <<"2", "0", "/", "0", "2", "/", "0", "2">>
    /\ date_tails = << <<"2", "0", "0", "2">>, <<"2", "0">>, <<"0", "2">>,
                       <<"1", "9", "0", "2">>, <<"2", "0", "0", "2", "0", "2">>,
                       <<"0", "2", "2", "0">>,
                       <<"2", "0", "0", "2", "1", "9", "0", "2">>,
                       <<"1", "9", "0", "2", "0", "2", "2", "0">> >>


(***************************************************************************)
(* Properties of one run of the wizard (SpecWizard)                        *)
(***************************************************************************)

PostBase == {"expand", "tails", "filter", "resolve", "open", "write", "done"}

PostExpand == PostBase \ {"expand"}

\* C1: the tail stage returns exactly the snapshot S united with every w + t
\* (w in S, t in the tail list): nothing else, so no tail lands on a string
\* that received one in this stage, at most |S| * (1 + |T|) members; with
\* ADD_NUM_TAILS off the stage leaves the set as it was.
C1_TailNonCompounding ==
    [][pc = "tails" /\ pc' = "filter" =>
          IF ADD_NUM_TAILS
          THEN /\ base_snapshot' = expanded
               /\ expanded \subseteq expanded'
               /\ \A wd \in expanded : \A i \in 1..Len(tails') :
                      wd \o tails'[i] \in expanded'
               /\ \A x \in expanded' :
                      \/ x \in expanded
                      \/ \E k \in 0..Len(x) :
                            /\ SubSeq(x, 1, k) \in expanded
                            /\ SubSeq(x, k + 1, Len(x)) \in Range(tails')
               /\ Cardinality(expanded') <= Cardinality(expanded) * (1 + Len(tails'))
          ELSE expanded' = expanded]_vars

\* the tail stage has run on a snapshot of several words
C1_Witness ==
    /\ pc = "filter"
    /\ ADD_NUM_TAILS
    /\ Cardinality(base_snapshot) > 1
    /\ <<"a", "n", "n">> \in base_snapshot
    /\ <<"a", "n", "n", "0", "0">> \in expanded
    /\ <<"a", "n", "n", "2", "0", "2", "5">> \in expanded
    /\ Len(tails) > 111

\* C2: an interrupt at any step aborts with the "Aborted." notice and leaves
\* the output file either untouched by this run or holding the complete
\* candidate set, never a strict prefix of the sorted words.
C2_NoPartialOutput ==
    pc = "aborted" =>
        /\ notice = "Aborted."
        /\ opened => /\ Range(fs[output_path]) = final_words
                     /\ Len(fs[output_path]) = Cardinality(final_words)

\* C3: with MIN_LEN > MAX_LEN or MAX_COMBO_TOKENS < 1 the run ends in an error
\* before any output is committed; it never opens the output file and never
\* completes normally.
C3_InvalidConfigFailsFast ==
    (MIN_LEN > MAX_LEN \/ MAX_COMBO_TOKENS < 1) => ~opened /\ pc # "done"

\* the positions of r distinct tokens, in order
Arrangements(r) ==
    {f \in [1..r -> 1..Len(tokens)] : \A i, j \in 1..r : i # j => f[i] # f[j]}

\* tokens[f[1]] sep tokens[f[2]] sep ... tokens[f[r]]
RECURSIVE Rendered(_, _, _)
Rendered(f, r, sep) ==
    IF r = 1 THEN tokens[f[1]]
    ELSE Rendered(f, r - 1, sep) \o sep \o tokens[f[r]]

\* C7: for distinct non-empty tokens and MAX_COMBO_TOKENS >= 1, base is exactly
\* the renderings, one per configured separator, of every ordered arrangement
\* of r distinct tokens, r in 1..min(MAX_COMBO_TOKENS, token count); for
\* ["ann", "lee"] with arity 2 and separators: 8 two-token strings and the 2
\* single tokens.
C7_PermutationCompleteness ==
    pc \in PostBase /\ MAX_COMBO_TOKENS >= 1 =>
        LET top  == IF MAX_COMBO_TOKENS < Len(tokens) THEN MAX_COMBO_TOKENS
                    ELSE Len(tokens)
            seps == IF ADD_SEPARATORS THEN {<<>>, <<"-">>, <<"_">>, <<".">>} ELSE {<<>>}
        IN  /\ \A i \in 1..Len(tokens) : tokens[i] # <<>>
            /\ \A i, j \in 1..Len(tokens) : i # j => tokens[i] # tokens[j]
            /\ base = UNION {{Rendered(f, r, sep) : f \in Arrangements(r), sep \in seps}
                             : r \in 1..top}
            /\ (tokens = << <<"a", "n", "n">>, <<"l", "e", "e">> >>
                  /\ MAX_COMBO_TOKENS >= 2 /\ ADD_SEPARATORS)
               => /\ Cardinality(base) = 10
                  /\ Cardinality({b \in base : Len(b) > 3}) = 8

\* base built from ["ann", "lee"] with separators and arity 2
C7_Witness ==
    /\ pc = "expand"
    /\ tokens = << <<"a", "n", "n">>, <<"l", "e", "e">> >>
    /\ MAX_COMBO_TOKENS >= 2
    /\ ADD_SEPARATORS
    /\ <<"l", "e", "e", "_", "a", "n", "n">> \in base
    /\ Cardinality(base) = 10

InWindow(x) == MIN_LEN <= Len(x) /\ Len(x) <= MAX_LEN

\* C9: the words written are exactly the distinct strings of the fully
\* expanded set whose length lies in [MIN_LEN, MAX_LEN], both ends included;
\* nothing outside the window is ever written, nothing inside it is dropped,
\* and no earlier stage drops a string (each stage keeps its input).
C9_LengthWindow ==
    /\ pc \in {"write", "done"} =>
          \A i \in 1..Len(fs[output_path]) :
              InWindow(fs[output_path][i]) /\ fs[output_path][i] \in expanded
    /\ pc = "done" =>
          /\ Range(fs[output_path]) = {x \in expanded : InWindow(x)}
          /\ Len(fs[output_path]) = Cardinality(Range(fs[output_path]))
    /\ pc \in PostBase /\ MAX_COMBO_TOKENS >= 1 => Range(tokens) \subseteq base
    /\ pc \in PostExpand => base \subseteq expanded
    /\ pc \in PostExpand \ {"tails"} /\ ADD_NUM_TAILS => base_snapshot \subseteq expanded

\* window 7..24 with expanded strings of length 6, 7, 24 and 25
C9_Witness ==
    /\ pc = "done"
    /\ MIN_LEN = 7 /\ MAX_LEN = 24
    /\ \E x \in expanded : Len(x) = 6
    /\ \E x \in expanded : Len(x) = 25
    /\ \E i \in 1..Len(fs[output_path]) : Len(fs[output_path][i]) = 7
    /\ \E i \in 1..Len(fs[output_path]) : Len(fs[output_path][i]) = 24


(***************************************************************************)
(* Properties of repeated runs (SpecDet, SpecPath)                         *)
(***************************************************************************)

\* C4 as stated: two completed runs with the same configuration, token list
\* and date fragments wrote the same sequence of lines; nothing else, the
\* clock included, influences it.
C4_DeterminismRegardlessOfClock ==
    \A a, b \in history :
        (a.cfg = b.cfg /\ a.tokens = b.tokens /\ a.date_tails = b.date_tails)
        => a.out = b.out

\* C4 amended: two completed runs with the same configuration, token list and
\* date fragments, and - when ADD_NUM_TAILS is on - the same calendar year on
\* the clock, wrote the same sequence of lines.
C4_DeterminismGivenYear ==
    \A a, b \in history :
        (a.cfg = b.cfg /\ a.tokens = b.tokens /\ a.date_tails = b.date_tails
         /\ (a.cfg.ADD_NUM_TAILS => a.now_year = b.now_year))
        => a.out = b.out

\* two runs on the same inputs in the same year have both completed
C4_Witness ==
    \E a, b \in history :
        /\ a.run # b.run
        /\ a.cfg = b.cfg /\ a.tokens = b.tokens /\ a.date_tails = b.date_tails
        /\ a.cfg.ADD_NUM_TAILS /\ a.now_year = b.now_year
        /\ Len(a.out) = 11
        /\ a.out = b.out

\* C10: the path resolved and about to be opened for writing never names a
\* file that already exists, so no earlier wordlist is overwritten or truncated.
C10_NeverOverwrites ==
    pc = "open" => ~exists(output_path)

====
